---- MODULE Spec2Model ----
(***************************************************************************)
(* Model of utils/a11-helpers.ts: assertElementFocused, tabToElement,      *)
(* getFocusedElementInfo (with getComputedAriaRole), truncateText,         *)
(* logFocusedElement and getFormattedFocusedElementInfo.                   *)
(*                                                                         *)
(* A JavaScript string is a sequence of one-character strings, so that     *)
(* length, slice, substring, trim, split and join are computed.  A value   *)
(* that may be null (getAttribute, a missing argument) is a record with a  *)
(* field "null".  The browser is the environment: a Tab press moves the    *)
(* focus to any element of the page or to none, and waitFor either finds   *)
(* the located element attached or times out.  The Playwright calls        *)
(* themselves are taken to complete (keyboard.press, waitForTimeout and    *)
(* evaluate do not reject).                                                *)
(***************************************************************************)
EXTENDS Integers, Sequences, FiniteSets, TLC

VARIABLES
    op,                  \* the exported function the test script called
    role,                \* argument role / expectedRole
    name,                \* argument name / expectedName (string or RegExp)
    maxTabsArg,          \* argument maxTabs as passed (may be omitted)
    logIntermediateElements,
    activeElement,       \* document.activeElement
    pc,                  \* position in the running function
    i,                   \* loop counter of tabToElement
    attached,            \* outcome of the latest expectedElement.waitFor
    focusedElementInfo,  \* local of assertElementFocused / logFocusedElement
    caught,              \* the error caught by tabToElement's catch clause
    error,               \* the error the caller receives
    result,              \* "running", "returned" or "thrown"
    console,             \* the latest console.log line
    trace                \* history: the page and console calls made so far

vars == <<op, role, name, maxTabsArg, logIntermediateElements, activeElement,
          pc, i, attached, focusedElementInfo, caught, error, result, console,
          trace>>

----------------------------------------------------------------------------
(* Bounds of the model *)

\* largest maxTabs the caller passes explicitly
MaxTabsArg == 2
\* how far beyond the 100-character limit the longest page text goes
MaxOverflow == 100

(* Program constants *)

\* default value of the maxTabs parameter
DefaultMaxTabs == 15
\* the default the doc comment of tabToElement announces
DocumentedMaxTabs == 10
\* assertElementFocused: names longer than this are shortened
ShortNameLimit == 100
\* assertElementFocused: argument of slice
ShortNameSlice == 97
\* truncateText: default maxLength
TruncateMaxLength == 100
\* truncateText: length of the '...' suffix subtracted from maxLength
EllipsisLength == 3

----------------------------------------------------------------------------
(* JavaScript strings *)

Ellipsis == <<".", ".", ".">>

WhiteSpace == {" ", "\n"}

\* String.prototype.slice(start) for 0 <= start
Slice(s, start) == SubSeq(s, start + 1, Len(s))

\* String.prototype.substring(start, end) for 0 <= start <= end
Substring(s, start, end) ==
    SubSeq(s, start + 1, IF end < Len(s) THEN end ELSE Len(s))

RECURSIVE TrimStart(_)
TrimStart(s) ==
    IF s # <<>> /\ Head(s) \in WhiteSpace THEN TrimStart(Tail(s)) ELSE s

RECURSIVE TrimEnd(_)
TrimEnd(s) ==
    IF s # <<>> /\ s[Len(s)] \in WhiteSpace
    THEN TrimEnd(SubSeq(s, 1, Len(s) - 1))
    ELSE s

\* String.prototype.trim
Trim(s) == TrimEnd(TrimStart(s))

\* String.prototype.split(sep) for a one-character separator
RECURSIVE SplitFrom(_, _, _)
SplitFrom(s, sep, cur) ==
    IF s = <<>> THEN <<cur>>
    ELSE IF Head(s) = sep THEN <<cur>> \o SplitFrom(Tail(s), sep, <<>>)
    ELSE SplitFrom(Tail(s), sep, Append(cur, Head(s)))

Split(s, sep) == SplitFrom(s, sep, <<>>)

\* Array.prototype.join(sep)
RECURSIVE Join(_, _)
Join(parts, sep) ==
    IF parts = <<>> THEN <<>>
    ELSE IF Len(parts) = 1 THEN parts[1]
    ELSE parts[1] \o sep \o Join(Tail(parts), sep)

UpperCase == <<"A", "B", "C", "D", "E", "F", "G", "H", "I", "J", "K", "L", "M",
               "N", "O", "P", "Q", "R", "S", "T", "U", "V", "W", "X", "Y", "Z">>
LowerCase == <<"a", "b", "c", "d", "e", "f", "g", "h", "i", "j", "k", "l", "m",
               "n", "o", "p", "q", "r", "s", "t", "u", "v", "w", "x", "y", "z">>

LowerChar(c) ==
    IF \E k \in 1..Len(UpperCase) : UpperCase[k] = c
    THEN LowerCase[CHOOSE k \in 1..Len(UpperCase) : UpperCase[k] = c]
    ELSE c

\* an array built by map, as a sequence
ArrayOf(f, n) == SubSeq(f, 1, n)

\* String.prototype.toLowerCase
ToLowerCase(s) == ArrayOf([k \in 1..Len(s) |-> LowerChar(s[k])], Len(s))

\* a value that may be null; "str" is the string when it is not
Null == [null |-> TRUE, str |-> <<>>]
Str(s) == [null |-> FALSE, str |-> s]

\* JavaScript truthiness of a string-or-null: neither null nor ""
Truthy(v) == ~v.null /\ v.str # <<>>

\* a || b on string-or-null values
Or(a, b) == IF Truthy(a) THEN a ELSE b

----------------------------------------------------------------------------
(* The page: elements, the document, the focus *)

S_a == <<"a">>
S_button == <<"b", "u", "t", "t", "o", "n">>
S_input == <<"i", "n", "p", "u", "t">>
S_textarea == <<"t", "e", "x", "t", "a", "r", "e", "a">>
S_select == <<"s", "e", "l", "e", "c", "t">>
S_header == <<"h", "e", "a", "d", "e", "r">>
S_footer == <<"f", "o", "o", "t", "e", "r">>
S_main == <<"m", "a", "i", "n">>
S_nav == <<"n", "a", "v">>
S_section == <<"s", "e", "c", "t", "i", "o", "n">>
S_table == <<"t", "a", "b", "l", "e">>
S_tr == <<"t", "r">>
S_td == <<"t", "d">>
S_th == <<"t", "h">>
S_link == <<"l", "i", "n", "k">>
S_textbox == <<"t", "e", "x", "t", "b", "o", "x">>
S_combobox == <<"c", "o", "m", "b", "o", "b", "o", "x">>
S_banner == <<"b", "a", "n", "n", "e", "r">>
S_contentinfo == <<"c", "o", "n", "t", "e", "n", "t", "i", "n", "f", "o">>
S_navigation == <<"n", "a", "v", "i", "g", "a", "t", "i", "o", "n">>
S_region == <<"r", "e", "g", "i", "o", "n">>
S_row == <<"r", "o", "w">>
S_cell == <<"c", "e", "l", "l">>
S_columnheader == <<"c", "o", "l", "u", "m", "n", "h", "e", "a", "d", "e", "r">>
S_tab == <<"t", "a", "b">>
NoRole == <<"N", "o", " ", "r", "o", "l", "e">>
NoName == <<"N", "o", " ", "n", "a", "m", "e">>

\* Element.tagName of an HTML element is upper case
T_A == <<"A">>
T_BUTTON == <<"B", "U", "T", "T", "O", "N">>
T_INPUT == <<"I", "N", "P", "U", "T">>
T_DIV == <<"D", "I", "V">>
T_BODY == <<"B", "O", "D", "Y">>
T_TD == <<"T", "D">>

\* texts of the page
X_Skip == <<"S", "k", "i", "p">>
X_SkipPadded == <<" ", "S", "k", "i", "p", "\n">>
X_SearchK == <<"S", "e", " ", "K">>
X_Se == <<"S", "e">>
X_ip == <<"i", "p">>
X_Go == <<"G", "o">>
X_Tip == <<"T", "i", "p">>
X_Hint == <<"H", "i", "n", "t">>
X_OnePadded == <<" ", "O", "n", "e", " ">>
X_Two == <<"T", "w", "o">>
X_Blank == <<" ", "\n">>

\* a text of n characters whose first and second halves differ
LongText(n) == ArrayOf([k \in 1..n |-> IF 2 * k <= n THEN "x" ELSE "y"], n)

LongLengths ==
    {ShortNameLimit - 1, ShortNameLimit, ShortNameLimit + 1,
     ShortNameLimit + MaxOverflow}

\* document.activeElement when nothing is focused
NoElement ==
    [null |-> TRUE, tagName |-> <<>>, role |-> Null, ariaLabelledby |-> Null,
     ariaLabel |-> Null, textContent |-> <<>>, title |-> Null,
     placeholder |-> Null]

Element(tag, r, by, label, text, ti, ph) ==
    [null |-> FALSE, tagName |-> tag, role |-> r, ariaLabelledby |-> by,
     ariaLabel |-> label, textContent |-> text, title |-> ti,
     placeholder |-> ph]

\* the elements of the document that carry an id (targets of aria-labelledby)
IdElements ==
    { [id |-> <<"p">>, textContent |-> X_OnePadded],
      [id |-> <<"q">>, textContent |-> X_Two],
      [id |-> <<"e">>, textContent |-> X_Blank] }

\* document.getElementById: the element's text, or null
GetElementById(id) ==
    IF \E e \in IdElements : e.id = id
    THEN Str((CHOOSE e \in IdElements : e.id = id).textContent)
    ELSE Null

\* every element the focus inspection is tried on
AllElements ==
    { Element(tag, r, by, label, text, ti, ph) :
        tag \in {T_A, T_BUTTON, T_DIV, T_BODY, T_TD},
        r \in {Null, Str(<<>>), Str(S_tab)},
        by \in {Null, Str(<<>>), Str(<<"p">>), Str(<<"p", " ", "q">>),
                Str(<<"m">>), Str(<<"e", " ", " ", "p">>)},
        label \in {Null, Str(<<>>), Str(X_Go)},
        text \in {<<>>, X_Blank, X_SkipPadded,
                  LongText(ShortNameLimit + 1)},
        ti \in {Null, Str(X_Tip)},
        ph \in {Null, Str(X_Hint)} }

\* the page the keyboard navigation runs on
Dom ==
    { Element(T_BODY, Null, Null, Null, LongText(n), Null, Null) :
        n \in LongLengths }
    \cup
    { Element(T_BUTTON, Null, Null, Str(X_SearchK), <<>>, Null, Null),
      Element(T_A, Null, Null, Null, X_SkipPadded, Null, Null),
      Element(T_DIV, Str(S_link), Str(<<"m">>), Str(X_Skip), <<>>, Null, Null),
      Element(T_INPUT, Null, Null, Null, <<>>, Null, Str(X_Hint)) }

----------------------------------------------------------------------------
(* getFocusedElementInfo *)

\* the object literal tagRoleMap, as key/value pairs
tagRoleMap ==
    { <<S_a, S_link>>, <<S_button, S_button>>, <<S_input, S_textbox>>,
      <<S_textarea, S_textbox>>, <<S_select, S_combobox>>,
      <<S_header, S_banner>>, <<S_footer, S_contentinfo>>,
      <<S_main, S_main>>, <<S_nav, S_navigation>>, <<S_section, S_region>>,
      <<S_table, S_table>>, <<S_tr, S_row>>, <<S_td, S_cell>>,
      <<S_th, S_columnheader>> }

\* tagRoleMap[key]: the value, or undefined (null here)
TagRoleLookup(key) ==
    IF \E e \in tagRoleMap : e[1] = key
    THEN Str((CHOOSE e \in tagRoleMap : e[1] = key)[2])
    ELSE Null

\* mutant: the tag's implicit role is looked up before the role attribute
GetComputedAriaRoleImplicitFirst(el) ==
    IF el.null THEN NoRole
    ELSE IF Truthy(TagRoleLookup(ToLowerCase(el.tagName)))
    THEN TagRoleLookup(ToLowerCase(el.tagName)).str
    ELSE Or(el.role, Str(NoRole)).str

GetComputedAriaRole(el) ==
    IF el.null THEN NoRole
    ELSE IF Truthy(el.role) THEN el.role.str
    ELSE Or(TagRoleLookup(ToLowerCase(el.tagName)), Str(NoRole)).str

\* the aria-labelledby branch: ids -> elements -> trimmed texts -> join
LabelledByName(labelledByIds) ==
    LET ids == Split(labelledByIds, " ")
        found == ArrayOf([k \in 1..Len(ids) |-> GetElementById(ids[k])],
                         Len(ids))
        labelledByElements == SelectSeq(found, LAMBDA e : ~e.null)
        texts == ArrayOf([k \in 1..Len(labelledByElements) |->
                             Trim(labelledByElements[k].str)],
                         Len(labelledByElements))
    IN  Join(SelectSeq(texts, LAMBDA s : s # <<>>), <<" ">>)

\* the else branch: aria-label || trimmed text || title || placeholder || "No name"
FallbackName(el) ==
    Or(el.ariaLabel,
       Or(Str(Trim(el.textContent)),
          Or(el.title, Or(el.placeholder, Str(NoName))))).str

AccessibleName(el) ==
    IF Truthy(el.ariaLabelledby)
    THEN LabelledByName(el.ariaLabelledby.str)
    ELSE FallbackName(el)

NullInfo == [null |-> TRUE, tag |-> <<>>, role |-> <<>>, name |-> <<>>]

GetFocusedElementInfo(el) ==
    IF el.null THEN NullInfo
    ELSE [null |-> FALSE,
          tag |-> ToLowerCase(el.tagName),
          role |-> GetComputedAriaRole(el),
          name |-> AccessibleName(el)]

\* truncateText(text) with the default maxLength
TruncateText(text) ==
    IF ~Truthy(text) THEN <<>>
    ELSE IF Len(text.str) > TruncateMaxLength
         THEN Substring(text.str, 0, TruncateMaxLength - EllipsisLength)
              \o Ellipsis
         ELSE text.str

\* JSON.stringify of a string: quoted, with quote, backslash and newline escaped
JsonEscapeChar(c) ==
    IF c = "\n" THEN <<"\\", "n">>
    ELSE IF c \in {"\"", "\\"} THEN <<"\\", c>>
    ELSE <<c>>

\* the escaped characters lo..hi of s
RECURSIVE JsonEscapeRange(_, _, _)
JsonEscapeRange(s, lo, hi) ==
    IF lo > hi THEN <<>>
    ELSE IF lo = hi THEN JsonEscapeChar(s[lo])
    ELSE JsonEscapeRange(s, lo, (lo + hi) \div 2)
         \o JsonEscapeRange(s, (lo + hi) \div 2 + 1, hi)

JsonEscape(s) == JsonEscapeRange(s, 1, Len(s))

JsonString(s) == <<"\"">> \o JsonEscape(s) \o <<"\"">>

\* JSON.stringify of the info object: "null", or the members in order
JsonStringify(info) ==
    IF info.null THEN <<"n", "u", "l", "l">>
    ELSE <<"{">> \o JsonString(<<"t", "a", "g">>) \o <<":">>
         \o JsonString(info.tag) \o <<",">>
         \o JsonString(<<"r", "o", "l", "e">>) \o <<":">>
         \o JsonString(info.role) \o <<",">>
         \o JsonString(<<"n", "a", "m", "e">>) \o <<":">>
         \o JsonString(info.name) \o <<"}">>

\* getFormattedFocusedElementInfo for every focus the page can have
FormattedInfos ==
    { <<el, JsonStringify(GetFocusedElementInfo(el))>> :
        el \in Dom \cup {NoElement} }

GetFormattedFocusedElementInfo(el) ==
    (CHOOSE p \in FormattedInfos : p[1] = el)[2]

----------------------------------------------------------------------------
(* Arguments, errors, history *)

\* expectedName: a literal string, or a RegExp /source/ or /^source/
Literal(s) == [regexp |-> FALSE, anchored |-> FALSE, source |-> s]
RegExp(anchored, s) == [regexp |-> TRUE, anchored |-> anchored, source |-> s]

ExpectedRoles == {S_button, S_link}
ExpectedNames == {Literal(X_Skip), RegExp(TRUE, X_Se), RegExp(FALSE, X_ip)}

\* the maxTabs argument: omitted, or a number
Omitted == [given |-> FALSE, value |-> 0]
Given(n) == [given |-> TRUE, value |-> n]

\* the parameter maxTabs after default binding
maxTabs == IF maxTabsArg.given THEN maxTabsArg.value ELSE DefaultMaxTabs

\* RegExp.prototype.test for a pattern without flags
RegExpTest(re, s) ==
    IF re.anchored
    THEN Len(s) >= Len(re.source) /\ SubSeq(s, 1, Len(re.source)) = re.source
    ELSE \E k \in 0..(Len(s) - Len(re.source)) :
             SubSeq(s, k + 1, k + Len(re.source)) = re.source

NoError == [kind |-> "none", role |-> <<>>, name |-> <<>>, info |-> <<>>]
\* Element with role ... and name ... not found on page.
NotFoundError ==
    [kind |-> "NotFound", role |-> <<>>, name |-> <<>>, info |-> <<>>]
\* No focused element
NoFocusedElementError ==
    [kind |-> "NoFocusedElement", role |-> <<>>, name |-> <<>>, info |-> <<>>]
\* Expected element ... to be focused / Actually focused element: role=, name=
NotFocusedError(actualRole, shortName) ==
    [kind |-> "NotFocused", role |-> actualRole, name |-> shortName,
     info |-> <<>>]
\* Failed to reach element ... after maxTabs Tab presses. Focused element: info
FailedToReachError(info) ==
    [kind |-> "FailedToReach", role |-> <<>>, name |-> <<>>, info |-> info]

NoLine == [printed |-> FALSE, focus |-> FALSE, tag |-> <<>>, role |-> <<>>,
           name |-> <<>>]
\* console.log("No focused element")
NoFocusLine == [printed |-> TRUE, focus |-> FALSE, tag |-> <<>>,
                role |-> <<>>, name |-> <<>>]
\* console.log("Current focus:", JSON.stringify({tag, role, name}))
FocusLine(tag, r, n) ==
    [printed |-> TRUE, focus |-> TRUE, tag |-> tag, role |-> r, name |-> n]

\* the calls that are counted over the whole run
Counted == {"Tab", "wait", "check", "pass", "fail", "log"}

\* "calls" counts the counted calls since the function was entered; "steps"
\* lists every call and outcome of the current loop iteration (of the whole
\* run outside tabToElement): also "attached", "timeout", "inspect", "format"
Record(h, e) ==
    [calls |-> IF e \in Counted THEN [h.calls EXCEPT ![e] = @ + 1]
               ELSE h.calls,
     steps |-> Append(h.steps, e),
     everAttached |-> h.everAttached \/ e = "attached"]

NewIteration(h) == [h EXCEPT !.steps = <<>>]

----------------------------------------------------------------------------
(* assertElementFocused *)

\* the shortName expression
ShortName(n) ==
    IF Len(n) > ShortNameLimit
    THEN Slice(n, ShortNameSlice) \o Ellipsis
    ELSE n

\* mutant: the role is not compared
FocusMatchesNameOnly(info, expectedRole, expectedName) ==
    IF expectedName.regexp
    THEN RegExpTest(expectedName, Or(Str(info.name), Str(<<>>)).str)
    ELSE info.name = expectedName.source

\* the condition of the if statement comparing role and name
FocusMatches(info, expectedRole, expectedName) ==
    /\ info.role = expectedRole
    /\ IF expectedName.regexp
       THEN RegExpTest(expectedName, Or(Str(info.name), Str(<<>>)).str)
       ELSE info.name = expectedName.source

\* mutant: no try/catch around the iteration, every error reaches the caller
AssertThrowsToCaller(e) ==
    /\ pc' = "done"
    /\ error' = e
    /\ result' = "thrown"
    /\ UNCHANGED caught

\* assertElementFocused throws e: into tabToElement's catch, or to the caller
AssertThrows(e) ==
    IF op = "tabToElement"
    THEN /\ pc' = "catch"
         /\ caught' = e
         /\ UNCHANGED <<error, result>>
    ELSE /\ pc' = "done"
         /\ error' = e
         /\ result' = "thrown"
         /\ UNCHANGED caught

\* mutant: the waitFor timeout is swallowed and the focus is inspected anyway
AssertWaitForIgnoresTimeout ==
    /\ pc = "waitFor"
    /\ \E found \in BOOLEAN :
        /\ attached' = found
        /\ pc' = "inspect"
        /\ trace' = Record(Record(trace, "check"),
                           IF found THEN "attached" ELSE "timeout")
    /\ UNCHANGED <<op, role, name, maxTabsArg, logIntermediateElements,
                   activeElement, i, focusedElementInfo, console, caught,
                   error, result>>

\* await expectedElement.waitFor({state: 'attached', timeout: 10000})
AssertWaitFor ==
    /\ pc = "waitFor"
    /\ \E found \in BOOLEAN :
        /\ attached' = found
        /\ IF found
           THEN /\ pc' = "inspect"
                /\ trace' = Record(Record(trace, "check"), "attached")
                /\ UNCHANGED <<caught, error, result>>
           ELSE /\ AssertThrows(NotFoundError)
                /\ trace' =
                     Record(Record(Record(trace, "check"), "timeout"), "fail")
    /\ UNCHANGED <<op, role, name, maxTabsArg, logIntermediateElements,
                   activeElement, i, focusedElementInfo, console>>

\* const focusedElementInfo = await getFocusedElementInfo(page)
AssertInspect ==
    /\ pc = "inspect"
    /\ focusedElementInfo' = GetFocusedElementInfo(activeElement)
    /\ IF focusedElementInfo'.null
       THEN /\ AssertThrows(NoFocusedElementError)
            /\ trace' = Record(Record(trace, "inspect"), "fail")
       ELSE /\ pc' = "compare"
            /\ trace' = Record(trace, "inspect")
            /\ UNCHANGED <<caught, error, result>>
    /\ UNCHANGED <<op, role, name, maxTabsArg, logIntermediateElements,
                   activeElement, i, attached, console>>

\* mutant: tabToElement lacks the return after a passed assertion
AssertCompareNoReturn ==
    /\ pc = "compare"
    /\ IF FocusMatches(focusedElementInfo, role, name)
       THEN /\ IF op = "tabToElement"
               THEN pc' = "for" /\ i' = i + 1 /\ UNCHANGED result
               ELSE pc' = "done" /\ result' = "returned" /\ UNCHANGED i
            /\ trace' = Record(trace, "pass")
            /\ UNCHANGED <<caught, error>>
       ELSE /\ AssertThrows(NotFocusedError(focusedElementInfo.role,
                                            ShortName(focusedElementInfo.name)))
            /\ trace' = Record(trace, "fail")
            /\ UNCHANGED i
    /\ focusedElementInfo' = NullInfo
    /\ UNCHANGED <<op, role, name, maxTabsArg, logIntermediateElements,
                   activeElement, attached, console>>

\* shortName, the comparison, return or throw
AssertCompare ==
    /\ pc = "compare"
    /\ IF FocusMatches(focusedElementInfo, role, name)
       THEN /\ pc' = "done"
            /\ result' = "returned"
            /\ trace' = Record(trace, "pass")
            /\ UNCHANGED <<caught, error>>
       ELSE /\ AssertThrows(NotFocusedError(focusedElementInfo.role,
                                            ShortName(focusedElementInfo.name)))
            /\ trace' = Record(trace, "fail")
    /\ focusedElementInfo' = NullInfo
    /\ UNCHANGED <<op, role, name, maxTabsArg, logIntermediateElements,
                   activeElement, i, attached, console>>

----------------------------------------------------------------------------
(* tabToElement *)

\* mutant: the loop test is i <= maxTabs
TabLoopOffByOne ==
    /\ pc = "for"
    /\ pc' = IF i <= maxTabs THEN "press" ELSE "exhausted"
    /\ trace' = NewIteration(trace)
    /\ UNCHANGED <<op, role, name, maxTabsArg, logIntermediateElements,
                   activeElement, i, attached, focusedElementInfo, caught,
                   error, result, console>>

\* for (let i = 0; i < maxTabs; i++): the test
TabLoop ==
    /\ pc = "for"
    /\ pc' = IF i < maxTabs THEN "press" ELSE "exhausted"
    /\ trace' = NewIteration(trace)
    /\ UNCHANGED <<op, role, name, maxTabsArg, logIntermediateElements,
                   activeElement, i, attached, focusedElementInfo, caught,
                   error, result, console>>

\* await page.keyboard.press('Tab'): the page moves the focus
TabPress ==
    /\ pc = "press"
    /\ \E el \in Dom \cup {NoElement} : activeElement' = el
    /\ pc' = "wait"
    /\ trace' = Record(trace, "Tab")
    /\ UNCHANGED <<op, role, name, maxTabsArg, logIntermediateElements, i,
                   attached, focusedElementInfo, caught, error, result,
                   console>>

\* await page.waitForTimeout(waitBetweenTabsMs); then assertElementFocused
TabWait ==
    /\ pc = "wait"
    /\ pc' = "waitFor"
    /\ trace' = Record(trace, "wait")
    /\ UNCHANGED <<op, role, name, maxTabsArg, logIntermediateElements,
                   activeElement, i, attached, focusedElementInfo, caught,
                   error, result, console>>

\* catch { if (logIntermediateElements) await logFocusedElement(page) }
TabCatch ==
    /\ pc = "catch"
    /\ IF logIntermediateElements
       THEN /\ pc' = "logInspect"
            /\ UNCHANGED <<i, caught>>
       ELSE /\ pc' = "for"
            /\ i' = i + 1
            /\ caught' = NoError
    /\ focusedElementInfo' = NullInfo
    /\ UNCHANGED <<op, role, name, maxTabsArg, logIntermediateElements,
                   activeElement, attached, error, result, console, trace>>

\* throw new Error(`Failed to reach ... ${await getFormattedFocusedElementInfo(page)}`)
TabExhausted ==
    /\ pc = "exhausted"
    /\ error' = FailedToReachError(
                    GetFormattedFocusedElementInfo(activeElement))
    /\ result' = "thrown"
    /\ pc' = "done"
    /\ trace' = Record(trace, "format")
    /\ UNCHANGED <<op, role, name, maxTabsArg, logIntermediateElements,
                   activeElement, i, attached, focusedElementInfo, caught,
                   console>>

----------------------------------------------------------------------------
(* logFocusedElement *)

\* const focusedInfo = await getFocusedElementInfo(page)
LogInspect ==
    /\ pc = "logInspect"
    /\ focusedElementInfo' = GetFocusedElementInfo(activeElement)
    /\ pc' = "logPrint"
    /\ UNCHANGED <<op, role, name, maxTabsArg, logIntermediateElements,
                   activeElement, i, attached, caught, error, result, console,
                   trace>>

\* console.log of the line; then back to the caller
LogPrint ==
    /\ pc = "logPrint"
    /\ console' =
         IF focusedElementInfo.null THEN NoFocusLine
         ELSE FocusLine(focusedElementInfo.tag, focusedElementInfo.role,
                        TruncateText(Str(focusedElementInfo.name)))
    /\ trace' = Record(trace, "log")
    /\ IF op = "tabToElement"
       THEN /\ pc' = "for"
            /\ i' = i + 1
            /\ caught' = NoError
            /\ focusedElementInfo' = NullInfo
            /\ UNCHANGED result
       ELSE /\ pc' = "done"
            /\ result' = "returned"
            /\ UNCHANGED <<i, caught, focusedElementInfo>>
    /\ UNCHANGED <<op, role, name, maxTabsArg, logIntermediateElements,
                   activeElement, attached, error>>

----------------------------------------------------------------------------
(* The calls a test script makes *)

NoHistory ==
    [calls |-> [e \in Counted |-> 0], steps |-> <<>>, everAttached |-> FALSE]

Init ==
    /\ op \in {"tabToElement", "assertElementFocused", "logFocusedElement"}
    /\ role \in (IF op = "logFocusedElement" THEN {S_link} ELSE ExpectedRoles)
    /\ name \in (IF op = "logFocusedElement" THEN {Literal(X_Skip)}
                 ELSE ExpectedNames)
    /\ maxTabsArg \in (IF op = "tabToElement"
                       THEN {Omitted} \cup {Given(n) : n \in 0..MaxTabsArg}
                       ELSE {Omitted})
    /\ logIntermediateElements \in
         (IF op = "tabToElement" THEN BOOLEAN ELSE {FALSE})
    /\ activeElement \in
         (IF op = "logFocusedElement" THEN AllElements ELSE Dom)
         \cup {NoElement}
    /\ pc = CASE op = "tabToElement" -> "for"
              [] op = "assertElementFocused" -> "waitFor"
              [] op = "logFocusedElement" -> "logInspect"
    /\ i = 0
    /\ attached = FALSE
    /\ focusedElementInfo = NullInfo
    /\ caught = NoError
    /\ error = NoError
    /\ result = "running"
    /\ console = NoLine
    /\ trace = NoHistory

Next ==
    \/ TabLoop
    \/ TabPress
    \/ TabWait
    \/ AssertWaitFor
    \/ AssertInspect
    \/ AssertCompare
    \/ TabCatch
    \/ TabExhausted
    \/ LogInspect
    \/ LogPrint

Spec == Init /\ [][Next]_vars

\* a call of tabToElement on a page where nothing is focused yet
TabInit ==
    /\ Init
    /\ op = "tabToElement"
    /\ activeElement = NoElement

\* every await of the running function completes
FairSpec == TabInit /\ [][Next]_vars /\ WF_vars(Next)

----------------------------------------------------------------------------
(* Vocabulary of the properties *)

Presses == trace.calls["Tab"]
Checks == trace.calls["check"]
Passes == trace.calls["pass"]
Fails == trace.calls["fail"]
Logs == trace.calls["log"]

InTabToElement == op = "tabToElement"
TabReturned == InTabToElement /\ pc = "done" /\ result = "returned"
TabThrew == InTabToElement /\ pc = "done" /\ result = "thrown"

\* a call of assertElementFocused has just ended (by return or by throw)
AssertEnded ==
    \/ op = "assertElementFocused" /\ pc = "done"
    \/ InTabToElement /\ pc = "catch"
    \/ TabReturned
AssertReturned ==
    \/ op = "assertElementFocused" /\ pc = "done" /\ result = "returned"
    \/ TabReturned
\* the error that call threw, if it threw
AssertError == IF InTabToElement THEN caught ELSE error

\* role and name of the element that holds the focus
Focused == GetFocusedElementInfo(activeElement)

IsPrefixOf(a, b) == Len(a) <= Len(b) /\ SubSeq(b, 1, Len(a)) = a
EndsWith(a, suffix) ==
    Len(a) >= Len(suffix)
    /\ SubSeq(a, Len(a) - Len(suffix) + 1, Len(a)) = suffix

----------------------------------------------------------------------------
(* C1 *)

\* C1: tabToElement terminates (it returns or throws) and simulates at most
\* maxTabs Tab presses, for every behaviour of the page and every maxTabs >= 0.
C1_TerminatesWithinMaxTabs ==
    /\ [](InTabToElement => Presses <= maxTabs)
    /\ <>(pc = "done" /\ result \in {"returned", "thrown"})

C1_Witness ==
    /\ TabThrew
    /\ maxTabsArg = Given(1)
    /\ Presses = 1

----------------------------------------------------------------------------
(* C2 *)

\* C2: tabToElement returns exactly when the focus assertion passes after some
\* press k in 1..maxTabs, having failed after each of the presses 1..k-1; it
\* has then pressed Tab k times and presses nothing more.  In an iteration
\* the order is Tab, wait, check: no check comes before the first press.
C2_FirstMatch ==
    InTabToElement =>
        /\ TabReturned =>
              /\ Passes = 1
              /\ Presses \in 1..maxTabs
              /\ Presses = i + 1
              /\ Fails = Presses - 1
              /\ trace.steps[Len(trace.steps)] = "pass"
        /\ Passes >= 1 => TabReturned
        /\ TabThrew => Passes = 0 /\ Fails = maxTabs /\ Presses = maxTabs
        /\ Passes + Fails <= Checks
        /\ Checks <= trace.calls["wait"]
        /\ trace.calls["wait"] <= Presses
        /\ \A n \in DOMAIN trace.steps :
              /\ trace.steps[n] = "Tab" => n = 1
              /\ trace.steps[n] = "wait" => n = 2 /\ trace.steps[1] = "Tab"
              /\ trace.steps[n] = "check" => n = 3 /\ trace.steps[2] = "wait"
              /\ trace.steps[n] \in {"inspect", "pass", "fail"} => n > 3

C2_Witness ==
    /\ TabReturned
    /\ Presses = 2
    /\ Fails = 1

----------------------------------------------------------------------------
(* C3 *)

\* C3: called without a maxTabs argument, tabToElement gives up after 10 Tab
\* presses: it never presses more than 10 times, and when the target is never
\* focused it throws after exactly 10 presses.
C3_DefaultIsTen ==
    (InTabToElement /\ ~maxTabsArg.given) =>
        /\ Presses <= DocumentedMaxTabs
        /\ TabThrew => Presses = DocumentedMaxTabs

----------------------------------------------------------------------------
(* C4 *)

\* C4: when the located target attaches, assertElementFocused returns exactly
\* when an element is focused, its computed role equals expectedRole and its
\* computed name equals (literal) or matches (pattern) expectedName; in every
\* other case it throws.
C4_ReturnsIffFocused ==
    (AssertEnded /\ attached) =>
        /\ AssertReturned <=>
              /\ ~activeElement.null
              /\ Focused.role = role
              /\ IF name.regexp
                 THEN RegExpTest(name, Focused.name)
                 ELSE Focused.name = name.source
        /\ ~AssertReturned =>
              AssertError.kind \in {"NoFocusedElement", "NotFocused"}

C4_Witness ==
    /\ op = "assertElementFocused"
    /\ pc = "done"
    /\ attached
    /\ result = "returned"
    /\ name.regexp

----------------------------------------------------------------------------
(* C5 *)

\* C5: when the located target never attaches within the wait,
\* assertElementFocused throws the 'not found on page' error whatever is
\* focused; the focused element is inspected only after the target attached.
C5_NotFoundBeforeInspection ==
    /\ (AssertEnded /\ ~attached) =>
          ~AssertReturned /\ AssertError.kind = "NotFound"
    /\ \A n \in DOMAIN trace.steps :
          trace.steps[n] = "inspect" => n > 1 /\ trace.steps[n - 1] = "attached"

C5_Witness ==
    /\ op = "assertElementFocused"
    /\ pc = "done"
    /\ ~attached
    /\ error.kind = "NotFound"
    /\ FocusMatches(Focused, role, name)

----------------------------------------------------------------------------
(* C6 *)

\* C6: the computed role is the explicit role attribute when it is non-empty,
\* otherwise the table entry of the lower-cased tag name, otherwise "No role";
\* an explicit role always wins over the tag's implicit role.
C6_ComputedRole ==
    ~focusedElementInfo.null =>
        LET el == activeElement
            tag == ToLowerCase(el.tagName)
            explicit == ~el.role.null /\ el.role.str # <<>>
            inTable == \E e \in tagRoleMap : e[1] = tag
        IN  /\ explicit => focusedElementInfo.role = el.role.str
            /\ (~explicit /\ inTable) =>
                   <<tag, focusedElementInfo.role>> \in tagRoleMap
            /\ (~explicit /\ ~inTable) => focusedElementInfo.role = NoRole

C6_Witness ==
    /\ pc = "logPrint"
    /\ activeElement.tagName = T_A
    /\ activeElement.role = Str(S_tab)
    /\ focusedElementInfo.role = S_tab

----------------------------------------------------------------------------
(* C7 *)

FirstNonEmpty(candidates) ==
    LET found == SelectSeq(candidates, LAMBDA s : s # <<>>)
    IN  IF found = <<>> THEN <<>> ELSE found[1]

StrOrEmpty(v) == IF v.null THEN <<>> ELSE v.str

\* C7: the computed name is the first non-empty value of: the text resolved
\* through aria-labelledby, aria-label, the trimmed text content, title,
\* placeholder, "No name"; so it is never the empty string.
C7_NameChain ==
    ~focusedElementInfo.null =>
        LET el == activeElement IN
        /\ focusedElementInfo.name =
              FirstNonEmpty(<<LabelledByName(StrOrEmpty(el.ariaLabelledby)),
                              StrOrEmpty(el.ariaLabel),
                              Trim(el.textContent),
                              StrOrEmpty(el.title),
                              StrOrEmpty(el.placeholder),
                              NoName>>)
        /\ focusedElementInfo.name # <<>>

----------------------------------------------------------------------------
(* C8 *)

NameMarker == <<",", "\"", "n", "a", "m", "e", "\"", ":", "\"">>

\* the characters of the name member's value in the JSON text t, still escaped
JsonNameBody(t) ==
    LET k == CHOOSE j \in 1..Len(t) :
                 SubSeq(t, j, j + Len(NameMarker) - 1) = NameMarker
    IN  SubSeq(t, k + Len(NameMarker), Len(t) - 2)

\* a backslash at k that starts an escape: an odd run of backslashes ends there
StartsEscape(b, k) ==
    /\ b[k] = "\\"
    /\ LET others == {j \in 1..k : b[j] # "\\"}
           last == IF others = {} THEN 0
                   ELSE CHOOSE j \in others : \A m \in others : m <= j
       IN  (k - last) % 2 = 1

\* the length of the string a JSON string body stands for
JsonDecodedLength(b) ==
    Len(b) - Cardinality({k \in 1..Len(b) : StartsEscape(b, k)})

\* C8: the error tabToElement throws after maxTabs iterations without a match
\* reports tag, role and name of the last-focused element, and the name it
\* contains is never longer than 100 characters.
C8_ErrorNameTruncated ==
    (TabThrew /\ error.kind = "FailedToReach" /\ ~activeElement.null) =>
        /\ IsPrefixOf(<<"{">> \o JsonString(<<"t", "a", "g">>) \o <<":">>
                      \o JsonString(Focused.tag), error.info)
        /\ JsonDecodedLength(JsonNameBody(error.info)) <= TruncateMaxLength

----------------------------------------------------------------------------
(* C9 *)

\* C9: in the mismatch error of assertElementFocused a name of at most 100
\* characters is shown unchanged, and a longer name is shown as at most 100
\* characters that start with the beginning of the name and end with "...".
C9_MismatchNameShortened ==
    (AssertEnded /\ AssertError.kind = "NotFocused") =>
        LET full == Focused.name
            shown == AssertError.name
        IN  /\ Len(full) <= ShortNameLimit => shown = full
            /\ Len(full) > ShortNameLimit =>
                  /\ Len(shown) <= ShortNameLimit
                  /\ EndsWith(shown, Ellipsis)
                  /\ IsPrefixOf(SubSeq(shown, 1, Len(shown) - Len(Ellipsis)),
                                full)

----------------------------------------------------------------------------
(* C10 *)

\* C10: inside tabToElement every error of an iteration is swallowed and the
\* loop goes on: when the target never attaches, Tab is pressed exactly
\* maxTabs times and the caller receives the 'Failed to reach' error, never
\* 'not found on page'.  With logIntermediateElements the focused element is
\* logged once per failed iteration and never for the successful one; without
\* it nothing is logged.
C10_ErrorsSwallowed ==
    InTabToElement =>
        /\ error.kind \in {"none", "FailedToReach"}
        /\ result = "thrown" <=> error.kind = "FailedToReach"
        /\ (pc = "done" /\ ~trace.everAttached) =>
              /\ TabThrew
              /\ Presses = maxTabs
              /\ Fails = maxTabs
        /\ pc = "catch" => result = "running" /\ i < maxTabs
        /\ ~logIntermediateElements => Logs = 0 /\ console = NoLine
        /\ logIntermediateElements =>
              Logs = IF pc \in {"catch", "logInspect", "logPrint"}
                     THEN Fails - 1 ELSE Fails
        /\ TabReturned => trace.steps[Len(trace.steps)] = "pass"

C10_Witness ==
    /\ TabThrew
    /\ ~trace.everAttached
    /\ logIntermediateElements
    /\ maxTabsArg = Given(2)
    /\ Logs = 2
    /\ caught = NoError
    /\ error.kind = "FailedToReach"

====
